---- MODULE Spec2Model ----
\* Model of the uptime module (src/src/__init__.py): the per-platform probes,
\* the dispatcher uptime(), boottime() and the module-level cache __boottime.
\* Instants and durations are integers counting microseconds, so that
\* sec + usec / 1000000. (line 148) stays exact.
EXTENDS Integers, Sequences, FiniteSets, TLC

----------------------------------------------------------------------------
\* Bounds of the model.

\* The wall clock runs from 1 second to MaxTime seconds.
MaxTime == 2
\* Seconds fields read from the kernel (kern.boottime, btime, sysinfo) lie in 0..MaxSec.
MaxSec == 2

\* Microseconds per second (lines 145 and 148).
USEC == 1000000
\* struct.calcsize('@LL') on an LP64 build (line 135).
SizeofLL == 16

----------------------------------------------------------------------------
\* Python values.  None, a number, a raised exception and a datetime all have
\* the shape [tag, v].

None == [tag |-> "none", v |-> 0]
Some(x) == [tag |-> "val", v |-> x]
Raise(e) == [tag |-> e, v |-> 0]
Unbound == [tag |-> "unbound", v |-> 0]

IsNone(r) == r.tag = "none"
IsVal(r) == r.tag = "val"
IsRaise(r) == r.tag \notin {"none", "val", "datetime", "unbound"}

\* Truth value of a probe result as the operands of `or` see it (lines 174-176):
\* None and the number 0 are false.
Truthy(r) == IsVal(r) /\ r.v # 0

\* datetime.fromtimestamp (lines 109 and 192): a datetime object built from an
\* epoch value; None is a TypeError.
fromtimestamp(x) ==
  IF IsVal(x) THEN [tag |-> "datetime", v |-> x.v] ELSE Raise("TypeError")

----------------------------------------------------------------------------
\* Ambient inputs of the probes.

Threads == {"main", "worker"}

\* sys.platform values.
Platforms == {"linux", "linux2", "linux-armv71", "mac", "darwin"}

\* /proc/uptime: unreadable, or the whitespace-separated tokens of its first line.
UptimeFiles ==
  { [readable |-> FALSE, line |-> << >>],
    [readable |-> TRUE, line |-> << >>],
    [readable |-> TRUE, line |-> <<"up", "2.50">>],
    [readable |-> TRUE, line |-> <<"0.00", "0.00">>],
    [readable |-> TRUE, line |-> <<"2.50", "1.00">>],
    [readable |-> TRUE, line |-> <<"-1.00", "1.00">>] }

\* float() of a token (line 61), in microseconds.
float(tok) ==
  CASE tok = "0.00" -> Some(0)
    [] tok = "2.50" -> Some(2 * USEC + USEC \div 2)
    [] tok = "1.00" -> Some(USEC)
    [] tok = "-1.00" -> Some(0 - USEC)
    [] OTHER -> Raise("ValueError")

\* The optional modules the import statements of lines 14-50 may find; which
\* of them imported is fixed when the module is loaded.
OptionalModules == {"ctypes", "datetime", "MacOS", "_posix"}

\* The C library: which names CDLL can load, which symbols the library has.
Libcs ==
  { [loadable |-> {}, syms |-> {}],
    [loadable |-> {"libc.so"}, syms |-> {}],
    [loadable |-> {"libc.so.6"}, syms |-> {"sysinfo"}],
    [loadable |-> {"libc.so"}, syms |-> {"sysinfo"}],
    [loadable |-> {"libc.dylib"}, syms |-> {"sysctlbyname"}],
    [loadable |-> {"libc.so"}, syms |-> {"sysctlbyname"}] }

\* ctypes.CDLL(first), and on OSError ctypes.CDLL(second) (lines 68-82, 116-126):
\* the name loaded, or "" when the probe returns None.  With ctypes = None
\* the attribute access raises AttributeError.
CDLL(mods, libc, first, second) ==
  IF "ctypes" \notin mods THEN ""
  ELSE IF first \in libc.loadable THEN first
  ELSE IF second \in libc.loadable THEN second
  ELSE ""

\* sysinfo(2): its return code and the uptime field of the buffer, in seconds.
Sysinfos ==
  { [rc |-> 0 - 1, up |-> 0], [rc |-> 0, up |-> 0 - 1], [rc |-> 0, up |-> 0] }
  \cup { [rc |-> 0, up |-> s] : s \in 1..MaxSec }

\* kern.boottime: the size sysctlbyname reports and the (sec, usec) pair.
Sysctls ==
  { [sz |-> 0, sec |-> 0, usec |-> 0] }
  \cup [sz : {SizeofLL}, sec : 0..MaxSec, usec : {0, USEC \div 2, USEC + 1}]

\* MacOS.GetTicks(): a tick count.
MacTicks == {0, 90}

\* What _uptime_posix and _uptime_osx of uptime._posix may return.
PosixOutcomes == {None, Some(0), Some(MaxSec * USEC)}

\* /proc/stat: unreadable, or the tokens of the line starting with 'btime'
\* (<< >> when there is no such line).
StatFiles ==
  { [readable |-> FALSE, btime |-> << >>],
    [readable |-> TRUE, btime |-> << >>],
    [readable |-> TRUE, btime |-> <<"btime">>],
    [readable |-> TRUE, btime |-> <<"btime", "x">>] }
  \cup { [readable |-> TRUE, btime |-> <<"btime", s>>] : s \in {"0", "1", "2"} }

\* int() of a token (line 104), in seconds.
int(tok) ==
  CASE tok = "0" -> Some(0)
    [] tok = "1" -> Some(1)
    [] tok = "2" -> Some(2)
    [] OTHER -> Raise("ValueError")

----------------------------------------------------------------------------
\* The probes.  Each yields [ret, bt]: the value returned (or the exception
\* raised) and the value of __boottime afterwards.

\* Lines 67-95: the sysinfo path of _uptime_linux.
uptime_linux_sysinfo(mods, libc, si) ==
  IF CDLL(mods, libc, "libc.so", "libc.so.6") = "" THEN None
  ELSE IF "sysinfo" \notin libc.syms THEN None
  ELSE IF si.rc < 0 THEN None
  ELSE IF si.up < 0 THEN None
  ELSE Some(si.up * USEC)

\* Lines 56-95.
_uptime_linux(mods, file, libc, si) ==
  IF ~file.readable THEN uptime_linux_sysinfo(mods, libc, si)
  ELSE IF Len(file.line) = 0 THEN Raise("IndexError")
  ELSE IF IsRaise(float(file.line[1])) THEN uptime_linux_sysinfo(mods, libc, si)
  ELSE float(file.line[1])

\* Lines 144-148: the boot instant computed from (sec, usec).
bsd_boottime(sec, usec) ==
  sec * USEC + (IF usec > USEC THEN 0 ELSE usec)

\* Lines 113-152 with the `global __boottime` of line 115 missing: line 148
\* assigns a local variable and the module's cache keeps its value.
_uptime_bsd_local(mods, libc, ctl, bt, t) ==
  IF CDLL(mods, libc, "libc.so", "libc.dylib") = "" THEN [ret |-> None, bt |-> bt]
  ELSE IF "sysctlbyname" \notin libc.syms THEN [ret |-> None, bt |-> bt]
  ELSE IF ctl.sz # SizeofLL THEN [ret |-> None, bt |-> bt]
  ELSE LET up == t - bsd_boottime(ctl.sec, ctl.usec)
       IN [ret |-> IF up < 0 THEN None ELSE Some(up), bt |-> bt]

\* Lines 113-152.  bt is __boottime on entry, t is time.time().
_uptime_bsd(mods, libc, ctl, bt, t) ==
  IF CDLL(mods, libc, "libc.so", "libc.dylib") = "" THEN [ret |-> None, bt |-> bt]
  ELSE IF "sysctlbyname" \notin libc.syms THEN [ret |-> None, bt |-> bt]
  ELSE IF ctl.sz # SizeofLL THEN [ret |-> None, bt |-> bt]
  ELSE LET b == bsd_boottime(ctl.sec, ctl.usec)
           up == t - b
       IN [ret |-> IF up < 0 THEN None ELSE Some(up), bt |-> Some(b)]

\* Lines 154-164: ticks / 60.15, in microseconds.
_uptime_mac(mods, ticks) ==
  IF "MacOS" \notin mods THEN None
  ELSE Some((ticks * 20 * USEC) \div 1203)

\* Lines 46-50: _uptime_posix and _uptime_osx are lambda: None when
\* uptime._posix did not import; r is what the extension returns otherwise.
_uptime_posix(mods, r) == IF "_posix" \notin mods THEN None ELSE r

_uptime_osx(mods, r) == IF "_posix" \notin mods THEN None ELSE r

\* Lines 97-111.  bt is __boottime on entry.
_boottime_linux(mods, stat, bt) ==
  IF ~stat.readable THEN [ret |-> None, bt |-> bt]
  ELSE IF Len(stat.btime) = 0 THEN
    IF "datetime" \notin mods THEN [ret |-> Raise("NotImplementedError"), bt |-> bt]
    ELSE [ret |-> fromtimestamp(bt), bt |-> bt]
  ELSE IF Len(stat.btime) < 2 THEN [ret |-> None, bt |-> bt]
  ELSE IF IsRaise(int(stat.btime[2])) THEN [ret |-> int(stat.btime[2]), bt |-> bt]
  ELSE LET b == Some(int(stat.btime[2]).v * USEC)
       IN IF "datetime" \notin mods THEN [ret |-> Raise("NotImplementedError"), bt |-> b]
          ELSE [ret |-> fromtimestamp(b), bt |-> b]

----------------------------------------------------------------------------
\* The dispatcher.

\* Lines 171-174 with the key 'linux-armv7l' in place of 'linux-armv71'.
Preferred_armv7l(p) ==
  CASE p \in {"linux", "linux-armv7l", "linux2"} -> "linux"
    [] p = "mac" -> "mac"
    [] OTHER -> "bsd"

\* Lines 171-174: the probe sys.platform selects.
Preferred(p) ==
  CASE p \in {"linux", "linux-armv71", "linux2"} -> "linux"
    [] p = "mac" -> "mac"
    [] OTHER -> "bsd"

\* Lines 171-176: the operands of the `or` chain, in evaluation order.
Chain(p) == <<Preferred(p), "bsd", "linux", "posix", "mac", "osx">>

\* Lines 174-176: `a or b` yields a when a is true and goes on to b otherwise;
\* the last operand is yielded whatever it is.
OrStops(r, i, n) == Truthy(r) \/ i = n

\* Line 168: the test guarding the fast path.
CacheIsSet(bt) == ~IsNone(bt)

\* Line 169 with the operands of the subtraction swapped.
uptime_fast_swapped(t, bt) == Some(bt.v - t)

\* Line 169: the fast path's result.
uptime_fast(t, bt) == Some(t - bt.v)

\* Line 184 testing `not up` in place of `up is None`: the test misses None
\* and takes the number 0 for it.
UpIsNone_falsy(u) == IsVal(u) /\ u.v = 0

\* Line 184: boottime() gives up when uptime() returned None.
UpIsNone(u) == IsNone(u)

\* Lines 189-192: the value boottime() returns.  bt is __boottime, t is
\* time.time(), u is the local variable up.
boottime_result(mods, bt, t, u) ==
  IF "datetime" \notin mods THEN Raise("RuntimeError")
  ELSE IF Truthy(bt) THEN fromtimestamp(bt)
  ELSE IF u = Unbound THEN Raise("UnboundLocalError")
  ELSE fromtimestamp(Some(t - u.v))

\* Line 192 storing the instant it derives from up when the cache is unset.
boottime_cache_derived(bt, t, u) ==
  IF CacheIsSet(bt) \/ ~IsVal(u) THEN bt ELSE Some(t - u.v)

\* Lines 189-192: __boottime when boottime() returns.  The return statement
\* assigns nothing, so it is the value found.
boottime_cache(bt, t, u) == bt

----------------------------------------------------------------------------
\* State.

VARIABLES
  platform,     \* sys.platform
  modules,      \* the optional modules that imported (lines 14-50)
  now,          \* time.time(), in microseconds
  __boottime,   \* the module-level cache (line 54)
  pc,           \* per thread: the line it is about to execute
  op,           \* per thread: the public function it called
  idx,          \* per thread: the operand of the `or` chain to evaluate next
  up,           \* per thread: boottime()'s local variable up
  uret,         \* per thread: the value uptime() returns
  ret,          \* per thread: the value (or exception) the public call yields
  calls,        \* per thread: the probes invoked by the call, with their results
  entry,        \* per thread: __boottime when the public call tested it first
  direct,       \* per thread: how many times the call ran _boottime_linux
  writers,      \* the threads that have assigned __boottime
  recent        \* the calls completed since the clock last advanced: a
                \* boottime() that returned the cached instant and the
                \* uptime() after it

vars == <<platform, modules, now, __boottime, pc, op, idx, up, uret, ret,
          calls, entry, direct, writers, recent>>

Init ==
  /\ platform \in Platforms
  /\ modules \in SUBSET OptionalModules
  /\ now = USEC
  /\ __boottime = None
  /\ pc = [t \in Threads |-> "idle"]
  /\ op = [t \in Threads |-> "none"]
  /\ idx = [t \in Threads |-> 0]
  /\ up = [t \in Threads |-> Unbound]
  /\ uret = [t \in Threads |-> None]
  /\ ret = [t \in Threads |-> None]
  /\ calls = [t \in Threads |-> << >>]
  /\ entry = [t \in Threads |-> None]
  /\ direct = [t \in Threads |-> 0]
  /\ writers = {}
  /\ recent = << >>

\* The mark left in `recent` by a clock advance during a call: the result
\* of that call belongs to no single instant.
Stale == [op |-> "stale", ret |-> None]

\* `recent` after a call of f has yielded r, the cache holding bt.
Completed(rec, f, r, bt) ==
  IF rec = <<Stale>> THEN << >>
  ELSE IF f = "boottime" /\ r.tag = "datetime" /\ r = fromtimestamp(bt)
    THEN <<[op |-> f, ret |-> r]>>
  ELSE IF f = "uptime" /\ Len(rec) = 1 THEN Append(rec, [op |-> f, ret |-> r])
  ELSE << >>

\* The clock advances.
Tick ==
  /\ now < MaxTime * USEC
  /\ now' = now + USEC \div 2
  /\ recent' = IF \E t \in Threads : pc[t] # "idle" THEN <<Stale>> ELSE << >>
  /\ UNCHANGED <<platform, modules, __boottime, pc, op, idx, up, uret, ret,
                 calls, entry, direct, writers>>

\* A thread calls uptime() (line 166).
CallUptime(t) ==
  /\ pc[t] = "idle"
  /\ op' = [op EXCEPT ![t] = "uptime"]
  /\ pc' = [pc EXCEPT ![t] = "u_check"]
  /\ UNCHANGED <<platform, modules, now, __boottime, idx, up, uret, ret,
                 calls, entry, direct, writers, recent>>

\* A thread calls boottime() (line 178).
CallBoottime(t) ==
  /\ pc[t] = "idle"
  /\ op' = [op EXCEPT ![t] = "boottime"]
  /\ pc' = [pc EXCEPT ![t] = "b_check1"]
  /\ UNCHANGED <<platform, modules, now, __boottime, idx, up, uret, ret,
                 calls, entry, direct, writers, recent>>

\* Line 168: uptime() tests the cache.
UptimeCheck(t) ==
  /\ pc[t] = "u_check"
  /\ entry' = [entry EXCEPT ![t] = IF op[t] = "uptime" THEN __boottime ELSE @]
  /\ IF CacheIsSet(__boottime)
       THEN pc' = [pc EXCEPT ![t] = "u_fast"] /\ idx' = idx
       ELSE pc' = [pc EXCEPT ![t] = "u_chain"] /\ idx' = [idx EXCEPT ![t] = 1]
  /\ UNCHANGED <<platform, modules, now, __boottime, op, up, uret, ret,
                 calls, direct, writers, recent>>

\* Line 169: the fast path.
UptimeFast(t) ==
  /\ pc[t] = "u_fast"
  /\ uret' = [uret EXCEPT ![t] = uptime_fast(now, __boottime)]
  /\ pc' = [pc EXCEPT ![t] = "u_ret"]
  /\ UNCHANGED <<platform, modules, now, __boottime, op, idx, up, ret,
                 calls, entry, direct, writers, recent>>

\* Lines 171-176: one operand of the chain has been evaluated to r.  An
\* exception leaves uptime() (and boottime(), when it is the caller).
ChainStep(t, probe, r) ==
  /\ calls' = [calls EXCEPT ![t] = Append(@, [probe |-> probe, res |-> r])]
  /\ IF IsRaise(r)
       THEN /\ ret' = [ret EXCEPT ![t] = r]
            /\ pc' = [pc EXCEPT ![t] = "done"]
            /\ UNCHANGED <<uret, idx>>
       ELSE IF OrStops(r, idx[t], Len(Chain(platform)))
         THEN /\ uret' = [uret EXCEPT ![t] = r]
              /\ pc' = [pc EXCEPT ![t] = "u_ret"]
              /\ UNCHANGED <<ret, idx>>
         ELSE /\ idx' = [idx EXCEPT ![t] = @ + 1]
              /\ UNCHANGED <<ret, uret, pc>>

ProbeLinux(t) ==
  /\ pc[t] = "u_chain"
  /\ Chain(platform)[idx[t]] = "linux"
  /\ \E file \in UptimeFiles, libc \in Libcs, si \in Sysinfos :
       ChainStep(t, "linux", _uptime_linux(modules, file, libc, si))
  /\ UNCHANGED <<platform, modules, now, __boottime, op, up, entry, direct,
                 writers, recent>>

ProbeBsd(t) ==
  /\ pc[t] = "u_chain"
  /\ Chain(platform)[idx[t]] = "bsd"
  /\ \E libc \in Libcs, ctl \in Sysctls :
       LET r == _uptime_bsd(modules, libc, ctl, __boottime, now)
       IN /\ ChainStep(t, "bsd", r.ret)
          /\ __boottime' = r.bt
          /\ writers' = IF r.bt # __boottime THEN writers \cup {t} ELSE writers
  /\ UNCHANGED <<platform, modules, now, op, up, entry, direct, recent>>

ProbePosix(t) ==
  /\ pc[t] = "u_chain"
  /\ Chain(platform)[idx[t]] = "posix"
  /\ \E r \in PosixOutcomes : ChainStep(t, "posix", _uptime_posix(modules, r))
  /\ UNCHANGED <<platform, modules, now, __boottime, op, up, entry, direct,
                 writers, recent>>

ProbeMac(t) ==
  /\ pc[t] = "u_chain"
  /\ Chain(platform)[idx[t]] = "mac"
  /\ \E ticks \in MacTicks : ChainStep(t, "mac", _uptime_mac(modules, ticks))
  /\ UNCHANGED <<platform, modules, now, __boottime, op, up, entry, direct,
                 writers, recent>>

ProbeOsx(t) ==
  /\ pc[t] = "u_chain"
  /\ Chain(platform)[idx[t]] = "osx"
  /\ \E r \in PosixOutcomes : ChainStep(t, "osx", _uptime_osx(modules, r))
  /\ UNCHANGED <<platform, modules, now, __boottime, op, up, entry, direct,
                 writers, recent>>

\* uptime() returns: to the caller of the public function, or to line 183 of
\* boottime(), which returns None at once when up is None (lines 184-185).
UptimeReturn(t) ==
  /\ pc[t] = "u_ret"
  /\ IF op[t] = "uptime"
       THEN /\ ret' = [ret EXCEPT ![t] = uret[t]]
            /\ pc' = [pc EXCEPT ![t] = "done"]
            /\ up' = up
       ELSE /\ up' = [up EXCEPT ![t] = uret[t]]
            /\ IF UpIsNone(uret[t])
                 THEN /\ ret' = [ret EXCEPT ![t] = None]
                      /\ pc' = [pc EXCEPT ![t] = "done"]
                 ELSE /\ ret' = ret
                      /\ pc' = [pc EXCEPT ![t] = "b_check2"]
  /\ UNCHANGED <<platform, modules, now, __boottime, op, idx, uret, calls,
                 entry, direct, writers, recent>>

\* Line 182: boottime() tests the cache and calls uptime() when it is unset.
BoottimeCheck1(t) ==
  /\ pc[t] = "b_check1"
  /\ entry' = [entry EXCEPT ![t] = __boottime]
  /\ pc' = [pc EXCEPT ![t] = IF CacheIsSet(__boottime) THEN "b_check2" ELSE "u_check"]
  /\ UNCHANGED <<platform, modules, now, __boottime, op, idx, up, uret, ret,
                 calls, direct, writers, recent>>

\* Line 186: boottime() tests the cache again.
BoottimeCheck2(t) ==
  /\ pc[t] = "b_check2"
  /\ pc' = [pc EXCEPT ![t] = IF CacheIsSet(__boottime) THEN "b_ret" ELSE "b_direct"]
  /\ UNCHANGED <<platform, modules, now, __boottime, op, idx, up, uret, ret,
                 calls, entry, direct, writers, recent>>

\* Line 187: the direct read.  Its return value is dropped; an exception
\* leaves boottime().
BoottimeDirect(t) ==
  /\ pc[t] = "b_direct"
  /\ \E stat \in StatFiles :
       LET r == _boottime_linux(modules, stat, __boottime)
       IN /\ __boottime' = r.bt
          /\ writers' = IF r.bt # __boottime THEN writers \cup {t} ELSE writers
          /\ IF IsRaise(r.ret)
               THEN /\ ret' = [ret EXCEPT ![t] = r.ret]
                    /\ pc' = [pc EXCEPT ![t] = "done"]
               ELSE /\ ret' = ret
                    /\ pc' = [pc EXCEPT ![t] = "b_ret"]
  /\ direct' = [direct EXCEPT ![t] = @ + 1]
  /\ UNCHANGED <<platform, modules, now, op, idx, up, uret, calls, entry,
                 recent>>

\* Lines 189-192.
BoottimeReturn(t) ==
  /\ pc[t] = "b_ret"
  /\ ret' = [ret EXCEPT ![t] = boottime_result(modules, __boottime, now, up[t])]
  /\ __boottime' = boottime_cache(__boottime, now, up[t])
  /\ pc' = [pc EXCEPT ![t] = "done"]
  /\ UNCHANGED <<platform, modules, now, op, idx, up, uret,
                 calls, entry, direct, writers, recent>>

\* The caller takes the result; the thread is free to call again.
Return(t) ==
  /\ pc[t] = "done"
  /\ pc' = [pc EXCEPT ![t] = "idle"]
  /\ op' = [op EXCEPT ![t] = "none"]
  /\ idx' = [idx EXCEPT ![t] = 0]
  /\ up' = [up EXCEPT ![t] = Unbound]
  /\ uret' = [uret EXCEPT ![t] = None]
  /\ ret' = [ret EXCEPT ![t] = None]
  /\ calls' = [calls EXCEPT ![t] = << >>]
  /\ entry' = [entry EXCEPT ![t] = None]
  /\ direct' = [direct EXCEPT ![t] = 0]
  /\ recent' = Completed(recent, op[t], ret[t], __boottime)
  /\ UNCHANGED <<platform, modules, now, __boottime, writers>>

Step(t) ==
  \/ CallUptime(t)
  \/ CallBoottime(t)
  \/ UptimeCheck(t)
  \/ UptimeFast(t)
  \/ ProbeLinux(t)
  \/ ProbeBsd(t)
  \/ ProbePosix(t)
  \/ ProbeMac(t)
  \/ ProbeOsx(t)
  \/ UptimeReturn(t)
  \/ BoottimeCheck1(t)
  \/ BoottimeCheck2(t)
  \/ BoottimeDirect(t)
  \/ BoottimeReturn(t)
  \/ Return(t)

\* One thread: the module as section 5 of the design describes its use.
Next == Tick \/ Step("main")

Spec == Init /\ [][Next]_vars

\* Two threads share the module: each step of one thread may be followed by
\* a step of the other.  The interleaving alone decides the races on
\* __boottime, so the clock is held still here.
NextMT == \E t \in Threads : Step(t)

\* The threads run on a BSD-family platform where ctypes and datetime imported.
InitMT == Init /\ platform = "darwin" /\ modules = {"ctypes", "datetime"}

SpecMT == InitMT /\ [][NextMT]_vars

----------------------------------------------------------------------------
\* Properties.

\* The probes the running uptime() call of thread t has invoked, in order.
Invoked(t) == [i \in 1..Len(calls[t]) |-> calls[t][i].probe]

\* A probe result that is a valid uptime: a number >= 0.
ValidUptime(r) == IsVal(r) /\ r.v >= 0

\* Every probe the running uptime() call of thread t has invoked kept to the
\* probe contract: it returned None or a valid uptime.
ProbesInContract(t) ==
  \A i \in 1..Len(calls[t]) :
    IsNone(calls[t][i].res) \/ ValidUptime(calls[t][i].res)

\* C1: every uptime() call that returns yields None or a number >= 0,
\* whatever the probes it invoked returned (each None or a valid uptime) and
\* also when it took the fast path after earlier calls.
C1_UptimeNoneOrNonNegative ==
  \A t \in Threads :
    (pc[t] = "u_ret" /\ ProbesInContract(t))
    => (IsNone(uret[t]) \/ ValidUptime(uret[t]))

\* C2: the cache is write-once: once __boottime holds a value, no step
\* changes it to another value or back to None.
C2_CacheWriteOnce ==
  [][CacheIsSet(__boottime) => __boottime' = __boottime]_vars

\* C3: entered with the cache unset, when the preferred probe returned None
\* and a later probe of the chain returned a valid uptime (a number >= 0),
\* uptime() returns the result of such a later probe, and not None.
C3_FallbackReturnsLaterResult ==
  \A t \in Threads :
    (/\ pc[t] = "u_ret"
     /\ Len(calls[t]) >= 2
     /\ ProbesInContract(t)
     /\ IsNone(calls[t][1].res)
     /\ \E i \in 2..Len(calls[t]) : ValidUptime(calls[t][i].res))
    => /\ ~IsNone(uret[t])
       /\ \E i \in 2..Len(calls[t]) :
            ValidUptime(calls[t][i].res) /\ uret[t] = calls[t][i].res

\* C4: entered with the cache unset, uptime() invokes the probes in the order
\* preferred, BSD, Linux, POSIX, Mac, OSX, goes on only past probes that
\* returned None, and returns exactly the value of the last probe it invoked.
C4_ChainStopsAtFirstNonNone ==
  \A t \in Threads :
    pc[t] \in {"u_chain", "u_ret"} =>
      /\ \A i \in 1..Len(calls[t]) :
           Invoked(t)[i] =
             <<Preferred(platform), "bsd", "linux", "posix", "mac", "osx">>[i]
      /\ \A i \in 1..Len(calls[t]) :
           (i < Len(calls[t]) \/ pc[t] = "u_chain") => IsNone(calls[t][i].res)
      /\ (pc[t] = "u_ret" /\ Len(calls[t]) >= 1) =>
           uret[t] = calls[t][Len(calls[t])].res

\* C5: within one call no probe is invoked twice, and the direct boot-time
\* read runs at most once.
C5_EachProbeAtMostOnce ==
  \A t \in Threads :
    /\ \A i, j \in 1..Len(calls[t]) : i # j => Invoked(t)[i] # Invoked(t)[j]
    /\ direct[t] <= 1

\* C6: the fast path.  A call of uptime() that finds the cache set goes
\* straight to line 169, invokes no probe, leaves the cache as it found it,
\* and returns the clock minus the cached instant.
C6_FastPath ==
  /\ [](\A t \in Threads :
          /\ pc[t] = "u_fast" => calls[t] = << >>
          /\ (pc[t] \in {"u_fast", "u_ret", "done"} /\ op[t] = "uptime"
              /\ CacheIsSet(entry[t]))
             => (calls[t] = << >> /\ __boottime = entry[t]))
  /\ [][\A t \in Threads :
          /\ (pc[t] = "u_check" /\ CacheIsSet(__boottime) /\ pc'[t] # "u_check")
             => (pc'[t] = "u_fast" /\ __boottime' = __boottime)
          /\ (pc[t] = "u_fast" /\ pc'[t] # "u_fast")
             => /\ pc'[t] = "u_ret"
                /\ uret'[t] = Some(now - __boottime.v)
                /\ __boottime' = __boottime]_vars

\* C6 witness: a fast-path call is about to return a positive uptime.
C6_Witness ==
  /\ pc["main"] = "u_ret"
  /\ op["main"] = "uptime"
  /\ CacheIsSet(entry["main"])
  /\ calls["main"] = << >>
  /\ uret["main"] = Some(now - __boottime.v)
  /\ uret["main"].v > 0

\* C7: with datetime imported, and probes that return None or a valid
\* uptime, boottime() never raises: it returns a datetime or None.
C7_BoottimeNeverRaises ==
  \A t \in Threads :
    (/\ pc[t] = "done"
     /\ op[t] = "boottime"
     /\ "datetime" \in modules
     /\ ProbesInContract(t))
    => ret[t].tag \in {"datetime", "none"}

\* C8: with datetime imported, a boottime() call that finds the cache set
\* returns exactly the cached instant and leaves the cache as it found it.
C8_BoottimeIdempotent ==
  \A t \in Threads :
    (/\ pc[t] = "done"
     /\ op[t] = "boottime"
     /\ "datetime" \in modules
     /\ CacheIsSet(entry[t]))
    => (ret[t] = fromtimestamp(entry[t]) /\ __boottime = entry[t])

\* C9: with several threads, at most one of them ever makes a write to the
\* cache that takes effect.
C9_SingleEffectiveWriter == Cardinality(writers) <= 1

\* C10: total failure is a value.  When every probe of the chain returned
\* None, uptime() returns None; and once boottime()'s uptime() call has
\* yielded None, boottime() has returned None without running the direct
\* boot-time read.
C10_TotalFailureIsNone ==
  \A t \in Threads :
    /\ (/\ pc[t] = "u_ret"
        /\ Len(calls[t]) = 6
        /\ \A i \in 1..6 : IsNone(calls[t][i].res))
       => IsNone(uret[t])
    /\ (op[t] = "boottime" /\ IsNone(up[t]))
       => (pc[t] = "done" /\ IsNone(ret[t]) /\ direct[t] = 0)
    /\ (/\ pc[t] = "done"
        /\ op[t] = "boottime"
        /\ ~CacheIsSet(entry[t])
        /\ Len(calls[t]) = 6
        /\ \A i \in 1..6 : IsNone(calls[t][i].res))
       => (IsNone(ret[t]) /\ direct[t] = 0)

\* C10 witness: boottime() has returned None after all six probes failed.
C10_Witness ==
  /\ pc["main"] = "done"
  /\ op["main"] = "boottime"
  /\ IsNone(up["main"])
  /\ IsNone(ret["main"])
  /\ Len(calls["main"]) = 6
  /\ \A i \in 1..6 : IsNone(calls["main"][i].res)

\* C11: no probe returns a negative uptime: a probe that computes one
\* returns None.
C11_NoProbeReturnsNegative ==
  \A t \in Threads :
    \A i \in 1..Len(calls[t]) :
      IsVal(calls[t][i].res) => calls[t][i].res.v >= 0

\* C12: the Linux probe never raises: whatever /proc/uptime holds, it
\* returns a number or None.
C12_LinuxProbeNeverRaises ==
  \A t \in Threads :
    \A i \in 1..Len(calls[t]) :
      calls[t][i].probe = "linux" => ~IsRaise(calls[t][i].res)

\* C14: a boottime() that reaches its return statement with the cache unset
\* returns the clock minus up and leaves the cache unset; a call that ends
\* so found the cache unset, ran the probes and tried the direct read.
C14_IndirectNotCached ==
  /\ [](\A t \in Threads :
          (/\ pc[t] = "done"
           /\ op[t] = "boottime"
           /\ ret[t].tag = "datetime"
           /\ ~CacheIsSet(__boottime))
          => (/\ ~CacheIsSet(entry[t])
              /\ Len(calls[t]) >= 1
              /\ direct[t] = 1))
  /\ [][\A t \in Threads :
          (/\ pc[t] = "b_ret"
           /\ pc'[t] # "b_ret"
           /\ ~CacheIsSet(__boottime)
           /\ "datetime" \in modules)
          => (/\ ret'[t] = fromtimestamp(Some(now - up[t].v))
              /\ ~CacheIsSet(__boottime'))]_vars

\* C14 witness: boottime() has returned a derived instant, the cache unset.
C14_Witness ==
  /\ pc["main"] = "done"
  /\ op["main"] = "boottime"
  /\ ret["main"].tag = "datetime"
  /\ IsVal(up["main"])
  /\ ret["main"].v = now - up["main"].v
  /\ ~CacheIsSet(__boottime)

\* C15: the first probe invoked is the Linux probe exactly on 'linux',
\* 'linux2' and 'linux-armv71', the Mac probe exactly on 'mac', the BSD probe
\* on every other platform; the probes after it do not depend on the platform.
C15_DispatchTable ==
  \A t \in Threads :
    /\ Len(calls[t]) >= 1 =>
         /\ (Invoked(t)[1] = "linux"
             <=> platform \in {"linux", "linux2", "linux-armv71"})
         /\ (Invoked(t)[1] = "mac" <=> platform = "mac")
         /\ (Invoked(t)[1] = "bsd"
             <=> platform \notin {"linux", "linux2", "linux-armv71", "mac"})
    /\ \A i \in 2..Len(calls[t]) :
         Invoked(t)[i] = <<"bsd", "linux", "posix", "mac", "osx">>[i - 1]

\* C15 witness: on 'linux-armv71' the Linux probe ran first, then the BSD probe.
C15_Witness ==
  /\ platform = "linux-armv71"
  /\ Len(calls["main"]) >= 2
  /\ Invoked("main")[1] = "linux"
  /\ Invoked("main")[2] = "bsd"

\* C16 as claimed: an uptime() call entered with the cache unset that
\* returns a value leaves the cache set.
C16_SuccessSetsCache ==
  \A t \in Threads :
    (pc[t] = "u_ret" /\ calls[t] # << >> /\ IsVal(uret[t]))
    => CacheIsSet(__boottime)

\* C16 as amended: when an uptime() call entered with the cache unset
\* returns, the cache is set if the BSD probe returned a value in the call,
\* and only if the call invoked the BSD probe.
C16_OnlyBsdSetsCache ==
  \A t \in Threads :
    (pc[t] = "u_ret" /\ calls[t] # << >>)
    => /\ (\E i \in 1..Len(calls[t]) :
             calls[t][i].probe = "bsd" /\ IsVal(calls[t][i].res))
          => CacheIsSet(__boottime)
       /\ CacheIsSet(__boottime)
          => \E i \in 1..Len(calls[t]) : calls[t][i].probe = "bsd"

\* C16 witness: uptime() returns the BSD probe's value with the cache set.
C16_Witness ==
  /\ pc["main"] = "u_ret"
  /\ Len(calls["main"]) >= 1
  /\ calls["main"][Len(calls["main"])].probe = "bsd"
  /\ IsVal(uret["main"])
  /\ uret["main"].v > 0
  /\ CacheIsSet(__boottime)

\* C17: with datetime imported, a boottime() whose uptime() call returned a
\* value and left the cache unset runs the direct read exactly once and
\* returns: the cached epoch value when the read set the cache, a derived
\* instant with the cache still unset otherwise.  The direct read is not
\* run while the cache is set.
C17_DirectReadOnce ==
  \A t \in Threads :
    /\ direct[t] <= 1
    /\ pc[t] = "b_direct" => ~CacheIsSet(__boottime)
    /\ (/\ pc[t] = "done"
        /\ op[t] = "boottime"
        /\ "datetime" \in modules
        /\ direct[t] = 1)
       => \/ CacheIsSet(__boottime) /\ ret[t] = fromtimestamp(__boottime)
          \/ ~CacheIsSet(__boottime) /\ ret[t].tag = "datetime"

\* C18: a failed call leaves no cached state behind: when every probe the
\* call invoked returned None, so that uptime() (and boottime() after it)
\* returns None, the cache is still unset.
C18_FailureLeavesCacheUnset ==
  \A t \in Threads :
    (/\ pc[t] \in {"u_ret", "done"}
     /\ calls[t] # << >>
     /\ \A i \in 1..Len(calls[t]) : IsNone(calls[t][i].res)
     /\ IsNone(uret[t])
     /\ IsNone(ret[t]))
    => ~CacheIsSet(__boottime)

\* The tolerance of the consistency property: one second.
Tolerance == USEC

Within(x, y, tol) == x - y <= tol /\ y - x <= tol

\* C13: once boottime() has returned the cached instant b, an uptime() and a
\* boottime() called right after it, the clock standing at t, return u and b'
\* with u not None, b' = b and b' + u = t within the tolerance.
C13_MutuallyConsistent ==
  \A t \in Threads :
    /\ (/\ pc[t] = "done"
        /\ op[t] = "uptime"
        /\ Len(recent) = 1
        /\ recent[1].op = "boottime"
        /\ recent[1].ret = fromtimestamp(__boottime))
       => (IsVal(ret[t]) /\ Within(recent[1].ret.v + ret[t].v, now, Tolerance))
    /\ (/\ pc[t] = "done"
        /\ op[t] = "boottime"
        /\ "datetime" \in modules
        /\ Len(recent) = 2
        /\ recent[1].ret = fromtimestamp(__boottime))
       => (/\ ret[t] = recent[1].ret
           /\ IsVal(recent[2].ret)
           /\ Within(ret[t].v + recent[2].ret.v, now, Tolerance))

====
